---- MODULE Spec2Model ----
(***************************************************************************)
(* Model of python/motorized_gimbal/motorized_gimbal_stray_light_sample.py *)
(*                                                                         *)
(* One behaviour is one call of one of the module's two entry functions:   *)
(*   run_sample_mg_capture_plan  (entry = "capture")                       *)
(*   run_sl_analysis             (entry = "analysis")                      *)
(* The motion device (Zaber connection, devices, axes), the file system    *)
(* and the analysis library are the environment: every call made to them   *)
(* is appended to `trace`, a call that can raise has a raising outcome,    *)
(* and an axis that was commanded to move settles at a time of its own.    *)
(***************************************************************************)
EXTENDS Integers, Sequences, FiniteSets

(***************************************************************************)
(* Bounds of the model                                                     *)
(***************************************************************************)
\* longest azimuth list and longest field-angle list of a caller-made plan
MaxAz == 2
MaxFa == 2
\* largest number of devices detect_devices() may return
MaxDevices == 2
\* largest vendor error id an ImatestException may carry
MaxErrorId == 3

\* reference angles (degrees) a caller passes for the azimuth and field axis
RefAzValues == {0, 5}
RefFaValues == {0, -10}
\* image file extensions a caller passes
FileExts == {"png", "jpg"}
\* output_dir arguments tried, and the directories that exist
OutputDirs == {"out", "missing"}
ExistingDirs == {"out"}

\* Python's None, and an unbound local
None == [none |-> TRUE]

(***************************************************************************)
(* Pure helpers                                                            *)
(***************************************************************************)
Digit(d) ==
  CASE d = 0 -> "0" [] d = 1 -> "1" [] d = 2 -> "2" [] d = 3 -> "3"
    [] d = 4 -> "4" [] d = 5 -> "5" [] d = 6 -> "6" [] d = 7 -> "7"
    [] d = 8 -> "8" [] d = 9 -> "9"

RECURSIVE DecStr(_)
\* decimal digits of a natural number
DecStr(n) == IF n < 10 THEN Digit(n) ELSE DecStr(n \div 10) \o Digit(n % 10)

RECURSIVE NumDigits(_)
NumDigits(n) == IF n < 10 THEN 1 ELSE 1 + NumDigits(n \div 10)

RECURSIVE Zeros(_)
Zeros(k) == IF k <= 0 THEN "" ELSE "0" \o Zeros(k - 1)

\* the format spec {n:05d} for n >= 0: zero-padded to a minimum width of 5
Format05d(n) == Zeros(5 - NumDigits(n)) \o DecStr(n)

\* the index formatted zero-based
CapFileName_ZeroBased(idx, ext) == "cap" \o Format05d(idx - 1) \o "." \o ext

\* f"cap{position_idx:05d}.{im_file_ext}"
CapFileName(idx, ext) == "cap" \o Format05d(idx) \o "." \o ext

\* pathlib.Path(dir, name): a Path object, not a str
PathJoin(dir, name) == [t |-> "Path", v |-> dir \o "/" \o name]

\* pathlib.Path.is_dir()
IsDir(dir) == dir \in ExistingDirs

RECURSIVE PyRange_DropLast(_, _, _)
\* a range one step short
PyRange_DropLast(start, stop, step) ==
  IF start + step >= stop THEN <<>>
  ELSE <<start>> \o PyRange_DropLast(start + step, stop, step)

RECURSIVE PyRange(_, _, _)
\* list(range(start, stop, step)) for step > 0: stop is excluded
PyRange(start, stop, step) ==
  IF start >= stop THEN <<>> ELSE <<start>> \o PyRange(start + step, stop, step)

make_sample_mg_horizontal_sweep_capture_plan ==
  [azimuthAngles |-> <<0>>, fieldAngles |-> PyRange(-45, 46, 5)]

make_sample_mg_star_capture_plan ==
  [azimuthAngles |-> <<0, 45, 90>>, fieldAngles |-> PyRange(-45, 46, 5)]

\* a list of n rising angles and a list of n equal angles (degrees)
RisingList(n) == [i \in 1..n |-> 15 * i - 20]
EqualList(n) == [i \in 1..n |-> 10]

\* the lists of at most n angles a caller puts in a plan (the empty one included)
AngleLists(n) == {RisingList(i) : i \in 0..n} \cup {EqualList(i) : i \in 0..n}

\* the plans a caller may make of its own
CallerPlans ==
  {[azimuthAngles |-> x, fieldAngles |-> y] : x \in AngleLists(MaxAz), y \in AngleLists(MaxFa)}

(***************************************************************************)
(* Python values as json sees them, and json.dump / json.load              *)
(***************************************************************************)
PyStr(s) == [t |-> "str", v |-> s]
PyInt(n) == [t |-> "int", v |-> n]
PyList(l) == [t |-> "list", v |-> l]
\* a dict, as the sequence of its items in insertion order
PyDict(items) == [t |-> "dict", v |-> items]
Item(k, val) == [key |-> k, val |-> val]

\* the chunks of a JSON text: punctuation, string literals, number literals
Punct(s) == [k |-> "punct", s |-> s, n |-> 0]
StrLit(s) == [k |-> "str", s |-> s, n |-> 0]
NumLit(n) == [k |-> "num", s |-> "", n |-> n]
IsPunct(tk, s) == tk.k = "punct" /\ tk.s = s

RECURSIVE iterencode(_), iterencode_list(_, _), iterencode_dict(_, _)
\* json.JSONEncoder.iterencode: the chunks produced before the encoder
\* finishes (ok) or raises TypeError on an object it cannot serialize (~ok)
iterencode(o) ==
  CASE o.t = "str" -> [ok |-> TRUE, out |-> <<StrLit(o.v)>>]
    [] o.t = "int" -> [ok |-> TRUE, out |-> <<NumLit(o.v)>>]
    [] o.t = "list" -> LET r == iterencode_list(o.v, 1)
                       IN [ok |-> r.ok, out |-> <<Punct("[")>> \o r.out]
    [] o.t = "dict" -> LET r == iterencode_dict(o.v, 1)
                       IN [ok |-> r.ok, out |-> <<Punct("{")>> \o r.out]
    [] OTHER -> [ok |-> FALSE, out |-> <<>>]

iterencode_list(l, i) ==
  IF i > Len(l) THEN [ok |-> TRUE, out |-> <<Punct("]")>>]
  ELSE LET sep == IF i = 1 THEN <<>> ELSE <<Punct(",")>>
           e == iterencode(l[i])
       IN IF ~e.ok THEN [ok |-> FALSE, out |-> sep \o e.out]
          ELSE LET r == iterencode_list(l, i + 1)
               IN [ok |-> r.ok, out |-> sep \o e.out \o r.out]

iterencode_dict(d, i) ==
  IF i > Len(d) THEN [ok |-> TRUE, out |-> <<Punct("}")>>]
  ELSE LET sep == IF i = 1 THEN <<>> ELSE <<Punct(",")>>
           key == <<StrLit(d[i].key), Punct(":")>>
           e == iterencode(d[i].val)
       IN IF ~e.ok THEN [ok |-> FALSE, out |-> sep \o key \o e.out]
          ELSE LET r == iterencode_dict(d, i + 1)
               IN [ok |-> r.ok, out |-> sep \o key \o e.out \o r.out]

ParseFail == [ok |-> FALSE, val |-> None, next |-> 0]

RECURSIVE parse_value(_, _), parse_list(_, _, _), parse_dict(_, _, _)
\* json.load on the chunks of a text, from chunk i on
parse_value(toks, i) ==
  IF i > Len(toks) THEN ParseFail
  ELSE LET tk == toks[i]
       IN CASE tk.k = "str" -> [ok |-> TRUE, val |-> PyStr(tk.s), next |-> i + 1]
            [] tk.k = "num" -> [ok |-> TRUE, val |-> PyInt(tk.n), next |-> i + 1]
            [] IsPunct(tk, "[") -> parse_list(toks, i + 1, <<>>)
            [] IsPunct(tk, "{") -> parse_dict(toks, i + 1, <<>>)
            [] OTHER -> ParseFail

parse_list(toks, i, acc) ==
  IF i > Len(toks) THEN ParseFail
  ELSE IF acc = <<>> /\ IsPunct(toks[i], "]")
       THEN [ok |-> TRUE, val |-> PyList(acc), next |-> i + 1]
  ELSE LET e == parse_value(toks, i)
       IN IF ~e.ok \/ e.next > Len(toks) THEN ParseFail
          ELSE IF IsPunct(toks[e.next], ",")
               THEN parse_list(toks, e.next + 1, Append(acc, e.val))
          ELSE IF IsPunct(toks[e.next], "]")
               THEN [ok |-> TRUE, val |-> PyList(Append(acc, e.val)), next |-> e.next + 1]
          ELSE ParseFail

parse_dict(toks, i, acc) ==
  IF i > Len(toks) THEN ParseFail
  ELSE IF acc = <<>> /\ IsPunct(toks[i], "}")
       THEN [ok |-> TRUE, val |-> PyDict(acc), next |-> i + 1]
  ELSE IF toks[i].k # "str" \/ i + 1 > Len(toks) THEN ParseFail
  ELSE IF ~IsPunct(toks[i + 1], ":") THEN ParseFail
  ELSE LET e == parse_value(toks, i + 2)
       IN IF ~e.ok \/ e.next > Len(toks) THEN ParseFail
          ELSE IF IsPunct(toks[e.next], ",")
               THEN parse_dict(toks, e.next + 1, Append(acc, Item(toks[i].s, e.val)))
          ELSE IF IsPunct(toks[e.next], "}")
               THEN [ok |-> TRUE, val |-> PyDict(Append(acc, Item(toks[i].s, e.val))),
                     next |-> e.next + 1]
          ELSE ParseFail

\* json.load: the whole text must be one value, else JSONDecodeError (~ok)
json_load(toks) ==
  LET r == parse_value(toks, 1)
  IN IF r.ok /\ r.next = Len(toks) + 1 THEN [ok |-> TRUE, val |-> r.val]
     ELSE [ok |-> FALSE, val |-> None]

\* one entry of capture_config["captures"] as the dict built at the append
CaptureDict(rec) ==
  PyDict(<<Item("image_paths", rec.image_paths),
           Item("source_field_angle_deg", PyInt(rec.source_field_angle_deg)),
           Item("source_azimuth_angle_deg", PyInt(rec.source_azimuth_angle_deg)),
           Item("source_comment", PyStr(rec.source_comment))>>)

\* the capture_config dict as json.dump receives it
ConfigDict(cfg) ==
  PyDict(<<Item("captures", PyList([i \in 1..Len(cfg.captures) |-> CaptureDict(cfg.captures[i])])),
           Item("run_name", PyStr(cfg.run_name)),
           Item("comment", PyStr(cfg.comment)),
           Item("version", PyInt(cfg.version))>>)

\* json.dump(capture_config, capture_config_file)
json_dump(cfg) == iterencode(ConfigDict(cfg))

(***************************************************************************)
(* State                                                                   *)
(***************************************************************************)
VARIABLES
  entry,                \* which function this behaviour calls
  \* arguments of run_sample_mg_capture_plan
  capture_plan, output_dir, im_file_ext, ref_az, ref_fa, do_home,
  az_zaber_device_idx, fa_zaber_device_idx,
  num_devices,          \* environment: how many devices answer detect_devices()
  \* environment of run_sl_analysis: is_file() of its two arguments
  config_is_file, ini_is_file,
  pc,                   \* position in the called function
  \* locals of run_sample_mg_capture_plan
  do_captures, capture_config, device_list, home_i, axis_az, axis_fa,
  position_idx, a, f, azimuth_angle, field_angle, im_file_path,
  connection,           \* "unopened", "open" or "closed"
  moving,               \* per device index: is its axis 1 still moving
  capture_config_file,  \* config.slconf on disk: None, or its path and chunks
  exc,                  \* the exception propagating out of the function, or None
  exit_code,            \* local of run_sl_analysis, its return value at the end
  trace                 \* every call made to the device, the adapter, the file
                        \* system and the analysis library, in order

inputs == <<entry, capture_plan, output_dir, im_file_ext, ref_az, ref_fa, do_home,
            az_zaber_device_idx, fa_zaber_device_idx, num_devices,
            config_is_file, ini_is_file>>
devv == <<device_list, home_i, axis_az, axis_fa>>
loopv == <<position_idx, a, f, azimuth_angle, field_angle, im_file_path>>
vars == <<inputs, pc, do_captures, capture_config, devv, loopv, connection, moving,
          capture_config_file, exc, exit_code, trace>>

\* az = capture_plan["azimuthAngles"]; fa = capture_plan["fieldAngles"]
az == capture_plan.azimuthAngles
fa == capture_plan.fieldAngles

DeviceIdx == 0..(MaxDevices - 1)

Locals0 ==
  /\ do_captures = FALSE
  /\ capture_config = None
  /\ device_list = <<>>
  /\ home_i = 0
  /\ axis_az = -1
  /\ axis_fa = -1
  /\ position_idx = 0
  /\ a = -1
  /\ f = -1
  /\ azimuth_angle = 0
  /\ field_angle = 0
  /\ im_file_path = None
  /\ connection = "unopened"
  /\ moving = [d \in DeviceIdx |-> FALSE]
  /\ capture_config_file = None
  /\ exc = None
  /\ exit_code = -1
  /\ trace = <<>>

\* a call of run_sample_mg_capture_plan by a caller of its own: any plan or
\* none, any arguments, any number of devices attached
InitCallerRun ==
  /\ entry = "capture"
  /\ capture_plan \in CallerPlans \cup {None}
  /\ output_dir \in OutputDirs
  /\ im_file_ext \in FileExts
  /\ ref_az \in RefAzValues
  /\ ref_fa \in RefFaValues
  /\ az_zaber_device_idx \in {0, 1}
  /\ fa_zaber_device_idx = 1 - az_zaber_device_idx
  /\ do_home \in BOOLEAN
  /\ num_devices \in 0..MaxDevices
  /\ config_is_file = FALSE
  /\ ini_is_file = FALSE
  /\ pc = "start"

\* the call main() makes: a plan of one of the two builders, the arguments
\* main() sets, the two devices of the gimbal attached
InitMainRun ==
  /\ entry = "capture"
  /\ capture_plan \in {make_sample_mg_horizontal_sweep_capture_plan,
                       make_sample_mg_star_capture_plan}
  /\ output_dir \in OutputDirs
  /\ im_file_ext = "png"
  /\ ref_az = 0
  /\ ref_fa = 0
  /\ do_home = FALSE
  /\ az_zaber_device_idx = 1
  /\ fa_zaber_device_idx = 0
  /\ num_devices = 2
  /\ config_is_file = FALSE
  /\ ini_is_file = FALSE
  /\ pc = "start"

InitCapture == InitCallerRun \/ InitMainRun

\* a call of run_sl_analysis with any two paths
InitAnalysis ==
  /\ entry = "analysis"
  /\ capture_plan = None
  /\ output_dir = "out"
  /\ im_file_ext = "png"
  /\ ref_az = 0
  /\ ref_fa = 0
  /\ do_home = FALSE
  /\ az_zaber_device_idx = 1
  /\ fa_zaber_device_idx = 0
  /\ num_devices = 0
  /\ config_is_file \in BOOLEAN
  /\ ini_is_file \in BOOLEAN
  /\ pc = "sl_start"

Init == (InitCapture \/ InitAnalysis) /\ Locals0

Call(e) == trace' = Append(trace, e)

(***************************************************************************)
(* run_sample_mg_capture_plan                                              *)
(***************************************************************************)
\* the validation without its return
ValidatePlan_NoReturn ==
  /\ pc = "start"
  /\ pc' = "setup"
  /\ UNCHANGED <<inputs, do_captures, capture_config, devv, loopv, connection, moving,
                 capture_config_file, exc, exit_code, trace>>

\* if capture_plan is None: return
ValidatePlan ==
  /\ pc = "start"
  /\ pc' = IF capture_plan = None THEN "returned" ELSE "setup"
  /\ UNCHANGED <<inputs, do_captures, capture_config, devv, loopv, connection, moving,
                 capture_config_file, exc, exit_code, trace>>

NewCaptureConfig ==
  [captures |-> <<>>, run_name |-> "sample_run_123abc",
   comment |-> "This is a sample capture config", version |-> -1]

\* do_captures, the empty capture_config, Library.enable_device_db_store()
Setup ==
  /\ pc = "setup"
  /\ do_captures' = IsDir(output_dir)
  /\ capture_config' = NewCaptureConfig
  /\ Call([op |-> "enable_device_db_store"])
  /\ pc' = "open"
  /\ UNCHANGED <<inputs, devv, loopv, connection, moving, capture_config_file, exc,
                 exit_code>>

\* with Connection.open_serial_port(com_port) as connection: the port opens
OpenConnection ==
  /\ pc = "open"
  /\ connection' = "open"
  /\ Call([op |-> "open_serial_port"])
  /\ pc' = "detect"
  /\ UNCHANGED <<inputs, do_captures, capture_config, devv, loopv, moving,
                 capture_config_file, exc, exit_code>>

\* open_serial_port raises: there is no connection and no with-block to leave
OpenFails ==
  /\ pc = "open"
  /\ exc' = [type |-> "ConnectionFailedException", at |-> "open"]
  /\ pc' = "raised"
  /\ UNCHANGED <<inputs, do_captures, capture_config, devv, loopv, connection, moving,
                 capture_config_file, exit_code, trace>>

\* device_list = connection.detect_devices()
DetectDevices ==
  /\ pc = "detect"
  /\ device_list' = [i \in 1..num_devices |-> i]
  /\ Call([op |-> "detect_devices"])
  /\ pc' = "home"
  /\ UNCHANGED <<inputs, do_captures, capture_config, home_i, axis_az, axis_fa, loopv,
                 connection, moving, capture_config_file, exc, exit_code>>

\* the blocking calls made without waiting, like the moves of the loop
WaitUntilIdleDefault_Off == FALSE

\* home and move_absolute called without wait_until_idle: the library's default
WaitUntilIdleDefault == TRUE

\* one turn of: for device in device_list: device.all_axes.home()
\* the home command of the next device is sent
HomeDevice ==
  /\ pc = "home"
  /\ do_home
  /\ home_i < Len(device_list)
  /\ Call([op |-> "home", dev |-> home_i, wait_until_idle |-> WaitUntilIdleDefault])
  /\ moving' = [moving EXCEPT ![home_i] = TRUE]
  /\ pc' = "home_idle"
  /\ UNCHANGED <<inputs, do_captures, capture_config, devv, loopv, connection,
                 capture_config_file, exc, exit_code>>

\* ... and home() returns once the axes of the device are idle
HomeIdle ==
  /\ pc = "home_idle"
  /\ WaitUntilIdleDefault => ~moving[home_i]
  /\ home_i' = home_i + 1
  /\ pc' = "home"
  /\ UNCHANGED <<inputs, do_captures, capture_config, device_list, axis_az, axis_fa,
                 loopv, connection, moving, capture_config_file, exc, exit_code, trace>>

\* the for loop over device_list left after its first turn
HomeDone_AfterFirst ==
  /\ pc = "home"
  /\ ~do_home \/ home_i >= 1 \/ home_i >= Len(device_list)
  /\ pc' = "select"
  /\ UNCHANGED <<inputs, do_captures, capture_config, devv, loopv, connection, moving,
                 capture_config_file, exc, exit_code, trace>>

\* do_home is false, or the for loop over device_list is exhausted
HomeDone ==
  /\ pc = "home"
  /\ ~do_home \/ home_i >= Len(device_list)
  /\ pc' = "select"
  /\ UNCHANGED <<inputs, do_captures, capture_config, devv, loopv, connection, moving,
                 capture_config_file, exc, exit_code, trace>>

\* axis_az / axis_fa = device_list[idx].get_axis(1); position_idx = 0
SelectAxes ==
  /\ pc = "select"
  /\ IF az_zaber_device_idx >= Len(device_list)
     THEN /\ exc' = [type |-> "IndexError", at |-> "select"]
          /\ pc' = "exit_with"
          /\ UNCHANGED <<axis_az, axis_fa>>
     ELSE /\ axis_az' = az_zaber_device_idx
          /\ IF fa_zaber_device_idx >= Len(device_list)
             THEN /\ exc' = [type |-> "IndexError", at |-> "select"]
                  /\ pc' = "exit_with"
                  /\ UNCHANGED axis_fa
             ELSE /\ axis_fa' = fa_zaber_device_idx
                  /\ pc' = "for_a"
                  /\ UNCHANGED exc
  /\ position_idx' = 0
  /\ UNCHANGED <<inputs, do_captures, capture_config, device_list, home_i, a, f,
                 azimuth_angle, field_angle, im_file_path, connection, moving,
                 capture_config_file, exit_code, trace>>

\* for a in range(len(az)): the next azimuth index, or the loop is over
ForA ==
  /\ pc = "for_a"
  /\ IF a + 1 < Len(az)
     THEN /\ a' = a + 1
          /\ f' = -1
          /\ pc' = "for_f"
     ELSE /\ pc' = "park_az"
          /\ UNCHANGED <<a, f>>
  /\ UNCHANGED <<inputs, do_captures, capture_config, devv, position_idx, azimuth_angle,
                 field_angle, im_file_path, connection, moving, capture_config_file, exc,
                 exit_code, trace>>

\* for f in range(len(fa)): the next field index and the head of the loop
\* body (position_idx += 1, the offset angles, im_file_path), or back to for a
ForF ==
  /\ pc = "for_f"
  /\ IF f + 1 < Len(fa)
     THEN /\ f' = f + 1
          /\ position_idx' = position_idx + 1
          /\ azimuth_angle' = az[a + 1] - ref_az
          /\ field_angle' = fa[f' + 1] - ref_fa
          /\ im_file_path' = PathJoin(output_dir, CapFileName(position_idx', im_file_ext))
          /\ pc' = "move_az"
     ELSE /\ pc' = "for_a"
          /\ UNCHANGED <<f, position_idx, azimuth_angle, field_angle, im_file_path>>
  /\ UNCHANGED <<inputs, do_captures, capture_config, devv, a, connection, moving,
                 capture_config_file, exc, exit_code, trace>>

Move(dev, position, wait) ==
  [op |-> "move_absolute", dev |-> dev, position |-> position, wait_until_idle |-> wait]

\* axis_az.move_absolute(azimuth_angle, ..., wait_until_idle=False, ...)
MoveAz ==
  /\ pc = "move_az"
  /\ Call(Move(axis_az, azimuth_angle, FALSE))
  /\ moving' = [moving EXCEPT ![axis_az] = TRUE]
  /\ pc' = "move_fa"
  /\ UNCHANGED <<inputs, do_captures, capture_config, devv, loopv, connection,
                 capture_config_file, exc, exit_code>>

\* axis_fa.move_absolute(field_angle, ..., wait_until_idle=False, ...)
MoveFa ==
  /\ pc = "move_fa"
  /\ Call(Move(axis_fa, field_angle, FALSE))
  /\ moving' = [moving EXCEPT ![axis_fa] = TRUE]
  /\ pc' = "wait_az"
  /\ UNCHANGED <<inputs, do_captures, capture_config, devv, loopv, connection,
                 capture_config_file, exc, exit_code>>

\* axis_az.wait_until_idle() returns
WaitAz ==
  /\ pc = "wait_az"
  /\ ~moving[axis_az]
  /\ Call([op |-> "wait_until_idle", dev |-> axis_az])
  /\ pc' = "wait_fa"
  /\ UNCHANGED <<inputs, do_captures, capture_config, devv, loopv, connection, moving,
                 capture_config_file, exc, exit_code>>

\* the azimuth axis waited on a second time in place of the field axis
WaitFa_WrongAxis ==
  /\ pc = "wait_fa"
  /\ ~moving[axis_az]
  /\ Call([op |-> "wait_until_idle", dev |-> axis_az])
  /\ pc' = "pause"
  /\ UNCHANGED <<inputs, do_captures, capture_config, devv, loopv, connection, moving,
                 capture_config_file, exc, exit_code>>

\* axis_fa.wait_until_idle() returns
WaitFa ==
  /\ pc = "wait_fa"
  /\ ~moving[axis_fa]
  /\ Call([op |-> "wait_until_idle", dev |-> axis_fa])
  /\ pc' = "pause"
  /\ UNCHANGED <<inputs, do_captures, capture_config, devv, loopv, connection, moving,
                 capture_config_file, exc, exit_code>>

\* time.sleep(pause_time_s)
Pause ==
  /\ pc = "pause"
  /\ Call([op |-> "sleep"])
  /\ pc' = "capture"
  /\ UNCHANGED <<inputs, do_captures, capture_config, devv, loopv, connection, moving,
                 capture_config_file, exc, exit_code>>

\* if do_captures: capture_image(im_file_path)
\* capture_image given a file name numbered by the records appended so far
Capture_ZeroBasedPath ==
  /\ pc = "capture"
  /\ IF do_captures
     THEN Call([op |-> "capture_image",
                path |-> PathJoin(output_dir,
                                  CapFileName(Len(capture_config.captures), im_file_ext))])
     ELSE UNCHANGED trace
  /\ pc' = "append"
  /\ UNCHANGED <<inputs, do_captures, capture_config, devv, loopv, connection, moving,
                 capture_config_file, exc, exit_code>>

Capture ==
  /\ pc = "capture"
  /\ IF do_captures
     THEN Call([op |-> "capture_image", path |-> im_file_path])
     ELSE UNCHANGED trace
  /\ pc' = "append"
  /\ UNCHANGED <<inputs, do_captures, capture_config, devv, loopv, connection, moving,
                 capture_config_file, exc, exit_code>>

\* the record holding the angles less the reference angles
CaptureRecord_Commanded(path, field, azimuth) ==
  [image_paths |-> path, source_field_angle_deg |-> field - ref_fa,
   source_azimuth_angle_deg |-> azimuth - ref_az, source_comment |-> ""]

\* the dict appended for one position
CaptureRecord(path, field, azimuth) ==
  [image_paths |-> path, source_field_angle_deg |-> field,
   source_azimuth_angle_deg |-> azimuth, source_comment |-> ""]

\* capture_config["captures"] = [dict({...})]: the list replaced, not extended
AppendRecord_Overwrite ==
  /\ pc = "append"
  /\ capture_config' =
       [capture_config EXCEPT !.captures =
          <<CaptureRecord(im_file_path, fa[f + 1], az[a + 1])>>]
  /\ pc' = "for_f"
  /\ UNCHANGED <<inputs, do_captures, devv, loopv, connection, moving,
                 capture_config_file, exc, exit_code, trace>>

\* capture_config["captures"].append(dict({...}))
AppendRecord ==
  /\ pc = "append"
  /\ capture_config' =
       [capture_config EXCEPT !.captures =
          Append(@, CaptureRecord(im_file_path, fa[f + 1], az[a + 1]))]
  /\ pc' = "for_f"
  /\ UNCHANGED <<inputs, do_captures, devv, loopv, connection, moving,
                 capture_config_file, exc, exit_code, trace>>

\* axis_az.move_absolute(ref_az, ...): the command is sent
ParkAz ==
  /\ pc = "park_az"
  /\ Call(Move(axis_az, ref_az, WaitUntilIdleDefault))
  /\ moving' = [moving EXCEPT ![axis_az] = TRUE]
  /\ pc' = IF WaitUntilIdleDefault THEN "park_az_idle" ELSE "park_fa"
  /\ UNCHANGED <<inputs, do_captures, capture_config, devv, loopv, connection,
                 capture_config_file, exc, exit_code>>

\* the azimuth park move returning at once, like the moves of a position
ParkAzIdle_NoWait ==
  /\ pc = "park_az_idle"
  /\ pc' = "park_fa"
  /\ UNCHANGED <<inputs, do_captures, capture_config, devv, loopv, connection, moving,
                 capture_config_file, exc, exit_code, trace>>

\* ... and the call returns once the azimuth axis is idle
ParkAzIdle ==
  /\ pc = "park_az_idle"
  /\ ~moving[axis_az]
  /\ pc' = "park_fa"
  /\ UNCHANGED <<inputs, do_captures, capture_config, devv, loopv, connection, moving,
                 capture_config_file, exc, exit_code, trace>>

\* axis_fa.move_absolute(ref_fa, ...): the command is sent
ParkFa ==
  /\ pc = "park_fa"
  /\ Call(Move(axis_fa, ref_fa, WaitUntilIdleDefault))
  /\ moving' = [moving EXCEPT ![axis_fa] = TRUE]
  /\ pc' = IF WaitUntilIdleDefault THEN "park_fa_idle" ELSE "write"
  /\ UNCHANGED <<inputs, do_captures, capture_config, devv, loopv, connection,
                 capture_config_file, exc, exit_code>>

\* ... and the call returns once the field axis is idle
ParkFaIdle ==
  /\ pc = "park_fa_idle"
  /\ ~moving[axis_fa]
  /\ pc' = "write"
  /\ UNCHANGED <<inputs, do_captures, capture_config, devv, loopv, connection, moving,
                 capture_config_file, exc, exit_code, trace>>

\* capture_config_file_path = pathlib.Path(output_dir, "config.slconf")
ConfigFilePath == PathJoin(output_dir, "config.slconf")

\* with capture_config_file_path.open(mode="w") as capture_config_file:
\*     json.dump(capture_config, capture_config_file)
\* open() raises FileNotFoundError when the directory is missing; otherwise the
\* file is created or truncated and holds the chunks json.dump produced, all of
\* them or those written before it raised TypeError
WriteConfig ==
  /\ pc = "write"
  /\ Call([op |-> "open_file", path |-> ConfigFilePath])
  /\ IF ~IsDir(output_dir)
     THEN /\ exc' = [type |-> "FileNotFoundError", at |-> "write"]
          /\ UNCHANGED capture_config_file
     ELSE LET r == json_dump(capture_config)
          IN /\ capture_config_file' = [path |-> ConfigFilePath, content |-> r.out]
             /\ exc' = IF r.ok THEN None ELSE [type |-> "TypeError", at |-> "write"]
  /\ pc' = "exit_with"
  /\ UNCHANGED <<inputs, do_captures, capture_config, devv, loopv, connection, moving,
                 exit_code>>

\* the calls inside the with block that the device or the adapter can fail
CanRaise == {"detect", "home", "home_idle", "move_az", "move_fa", "wait_az", "wait_fa", "capture",
             "park_az", "park_az_idle", "park_fa", "park_fa_idle"}

ExcType(at) == IF at = "capture" THEN "CaptureError" ELSE "MotionLibException"

\* the connection opened without a with block: an exception leaves at once
Raise_NoClose ==
  /\ pc \in CanRaise
  /\ pc = "home" => do_home /\ home_i < Len(device_list)
  /\ pc = "capture" => do_captures
  /\ exc' = [type |-> ExcType(pc), at |-> pc]
  /\ pc' = "raised"
  /\ UNCHANGED <<inputs, do_captures, capture_config, devv, loopv, connection, moving,
                 capture_config_file, exit_code, trace>>

\* the loop wrapped in try/finally: an exception parks both axes on its way out
Raise_ParkOnExit ==
  /\ pc \in CanRaise
  /\ pc = "home" => do_home /\ home_i < Len(device_list)
  /\ pc = "capture" => do_captures
  /\ exc' = [type |-> ExcType(pc), at |-> pc]
  /\ connection' = "closed"
  /\ trace' = trace \o (IF axis_az >= 0 /\ axis_fa >= 0
                         THEN <<Move(axis_az, ref_az, TRUE), Move(axis_fa, ref_fa, TRUE)>>
                         ELSE <<>>) \o <<[op |-> "close"]>>
  /\ pc' = "raised"
  /\ UNCHANGED <<inputs, do_captures, capture_config, devv, loopv, moving,
                 capture_config_file, exit_code>>

\* a device call or capture_image raises: nothing in the function catches it,
\* the with block is left, which closes the connection, and the exception
\* goes on to the caller
Raise ==
  /\ pc \in CanRaise
  /\ pc = "home" => do_home /\ home_i < Len(device_list)
  /\ pc = "capture" => do_captures
  /\ exc' = [type |-> ExcType(pc), at |-> pc]
  /\ connection' = "closed"
  /\ Call([op |-> "close"])
  /\ pc' = "raised"
  /\ UNCHANGED <<inputs, do_captures, capture_config, devv, loopv, moving,
                 capture_config_file, exit_code>>

\* leaving the with block at its end, or by the exception of the axis selection
\* or of the sidecar write: the connection closes, then the function returns or
\* the exception goes on to the caller
ExitWith ==
  /\ pc = "exit_with"
  /\ connection' = "closed"
  /\ Call([op |-> "close"])
  /\ pc' = IF exc = None THEN "returned" ELSE "raised"
  /\ UNCHANGED <<inputs, do_captures, capture_config, devv, loopv, moving,
                 capture_config_file, exc, exit_code>>

\* the device: an axis that was commanded to move reaches its target
Settle(d) ==
  /\ connection = "open"
  /\ moving[d]
  /\ moving' = [moving EXCEPT ![d] = FALSE]
  /\ UNCHANGED <<inputs, pc, do_captures, capture_config, devv, loopv, connection,
                 capture_config_file, exc, exit_code, trace>>

(***************************************************************************)
(* run_sl_analysis                                                         *)
(***************************************************************************)
\* exit_code = 0; if not config_file_path.is_file(): return 1
CheckConfigFile ==
  /\ pc = "sl_start"
  /\ IF ~config_is_file
     THEN exit_code' = 1 /\ pc' = "sl_returned"
     ELSE exit_code' = 0 /\ pc' = "sl_check_ini"
  /\ UNCHANGED <<inputs, do_captures, capture_config, devv, loopv, connection, moving,
                 capture_config_file, exc, trace>>

\* the ini check without its return
CheckIniFile_NoReturn ==
  /\ pc = "sl_check_ini"
  /\ exit_code' = IF ~ini_is_file THEN 1 ELSE exit_code
  /\ pc' = "sl_init"
  /\ UNCHANGED <<inputs, do_captures, capture_config, devv, loopv, connection, moving,
                 capture_config_file, exc, trace>>

\* if not ini_file_path.is_file(): return 1
CheckIniFile ==
  /\ pc = "sl_check_ini"
  /\ IF ~ini_is_file
     THEN exit_code' = 1 /\ pc' = "sl_returned"
     ELSE pc' = "sl_init" /\ UNCHANGED exit_code
  /\ UNCHANGED <<inputs, do_captures, capture_config, devv, loopv, connection, moving,
                 capture_config_file, exc, trace>>

\* imatest = ImatestLibrary()
InitLibrary ==
  /\ pc = "sl_init"
  /\ Call([op |-> "ImatestLibrary"])
  /\ pc' = "sl_batch"
  /\ UNCHANGED <<inputs, do_captures, capture_config, devv, loopv, connection, moving,
                 capture_config_file, exc, exit_code>>

\* what imatest.stray_light_batch can do: return a result, raise an
\* ImatestException of some error id, or raise another Exception
ErrorIds == 1..MaxErrorId

BatchOutcomes ==
  {[kind |-> "ok", error_id |-> 0], [kind |-> "Exception", error_id |-> 0]}
    \cup {[kind |-> "ImatestException", error_id |-> e] : e \in ErrorIds}

\* the generic handler forgetting to set exit_code
ExitCodeAfter_KeepOnException(code, o) ==
  CASE o.kind = "ok" -> code
    [] o.kind = "ImatestException" -> o.error_id
    [] o.kind = "Exception" -> code

\* the exit code the try / except leaves for an outcome of the batch call
ExitCodeAfter(code, o) ==
  CASE o.kind = "ok" -> code
    [] o.kind = "ImatestException" -> o.error_id
    [] o.kind = "Exception" -> 1

\* try: imatest.stray_light_batch(...) except ImatestException / Exception
StrayLightBatch ==
  /\ pc = "sl_batch"
  /\ \E o \in BatchOutcomes :
       /\ Call([op |-> "stray_light_batch", outcome |-> o])
       /\ exit_code' = ExitCodeAfter(exit_code, o)
  /\ pc' = "sl_terminate"
  /\ UNCHANGED <<inputs, do_captures, capture_config, devv, loopv, connection, moving,
                 capture_config_file, exc>>

\* imatest.terminate_library(); return exit_code
TerminateLibrary ==
  /\ pc = "sl_terminate"
  /\ Call([op |-> "terminate_library"])
  /\ pc' = "sl_returned"
  /\ UNCHANGED <<inputs, do_captures, capture_config, devv, loopv, connection, moving,
                 capture_config_file, exc, exit_code>>

Next ==
  \/ ValidatePlan \/ Setup \/ OpenConnection \/ OpenFails \/ DetectDevices
  \/ HomeDevice \/ HomeIdle \/ HomeDone \/ SelectAxes \/ ForA \/ ForF
  \/ MoveAz \/ MoveFa \/ WaitAz \/ WaitFa \/ Pause \/ Capture \/ AppendRecord
  \/ ParkAz \/ ParkAzIdle \/ ParkFa \/ ParkFaIdle \/ WriteConfig
  \/ Raise \/ ExitWith
  \/ \E d \in DeviceIdx : Settle(d)
  \/ CheckConfigFile \/ CheckIniFile \/ InitLibrary \/ StrayLightBatch
  \/ TerminateLibrary

Spec == Init /\ [][Next]_vars

(***************************************************************************)
(* Vocabulary of the properties                                            *)
(***************************************************************************)
CaptureRun == entry = "capture" /\ capture_plan # None
\* the plan has been read and capture_config exists
Started == CaptureRun /\ pc \notin {"start", "setup"}
Ended == pc \in {"returned", "raised"}
\* num_positions = len(az) * len(fa)
NumPositions == Len(az) * Len(fa)
\* the azimuth and field index (1-based) of the k-th position of the product
AzOf(k) == az[((k - 1) \div Len(fa)) + 1]
FaOf(k) == fa[((k - 1) % Len(fa)) + 1]

ParkPcs == {"park_az", "park_az_idle", "park_fa", "park_fa_idle"}
\* the nested loop ran to its end: no call of the loop, and none before it, raised
LoopFinished ==
  /\ Started
  /\ \/ pc \in ParkPcs \cup {"write"}
     \/ pc \in {"exit_with", "returned", "raised"}
          /\ (exc = None \/ exc.at \in ParkPcs \cup {"write"})
\* the run got as far as writing config.slconf
ReachedWrite ==
  /\ Started
  /\ \/ pc = "write"
     \/ pc \in {"exit_with", "returned", "raised"} /\ (exc = None \/ exc.at = "write")

IsProgrammedMove(e) == e.op = "move_absolute" /\ ~e.wait_until_idle
IsMove(e) == e.op = "move_absolute"
IsCapture(e) == e.op = "capture_image"
IsOpen(e) == e.op = "open_serial_port"
IsClose(e) == e.op = "close"
\* the moves of the planned positions, in the order they were issued
ProgrammedMoves == SelectSeq(trace, IsProgrammedMove)
Captures == capture_config.captures

\* cap{k:05d}.<ext> written out by the number of digits of k
ExpectedName(k, ext) ==
  (CASE k < 10 -> "cap0000"
     [] k >= 10 /\ k < 100 -> "cap000"
     [] k >= 100 /\ k < 1000 -> "cap00"
     [] k >= 1000 /\ k < 10000 -> "cap0"
     [] OTHER -> "cap") \o DecStr(k) \o "." \o ext

(***************************************************************************)
(* C1: over a plan with non-empty azimuth list (m) and field list (n) the  *)
(* run visits exactly m*n positions, azimuth outer and field inner, and    *)
(* the k-th position gets the file name cap{k:05d}.<ext>: the names run    *)
(* from cap00001 to cap{m*n:05d} without gap or repeat.                    *)
(***************************************************************************)
C1_VisitOrderAndNames ==
  (Started /\ Len(az) > 0 /\ Len(fa) > 0) =>
    /\ position_idx <= NumPositions
    /\ Len(Captures) <= position_idx
    /\ position_idx <= Len(Captures) + 1
    /\ Len(ProgrammedMoves) <= 2 * position_idx
    /\ \A k \in 1..Len(Captures) :
         /\ Captures[k].image_paths =
              [t |-> "Path", v |-> output_dir \o "/" \o ExpectedName(k, im_file_ext)]
         /\ Captures[k].source_azimuth_angle_deg = AzOf(k)
         /\ Captures[k].source_field_angle_deg = FaOf(k)
    /\ \A i, j \in 1..Len(Captures) :
         i # j => Captures[i].image_paths # Captures[j].image_paths
    /\ (pc \in {"move_az", "move_fa", "wait_az", "wait_fa", "pause", "capture", "append"}
          => im_file_path =
               [t |-> "Path", v |-> output_dir \o "/" \o ExpectedName(position_idx, im_file_ext)])
    /\ LoopFinished =>
         /\ position_idx = NumPositions
         /\ Len(Captures) = NumPositions
         /\ Len(ProgrammedMoves) = 2 * NumPositions

\* a run over a 2 x 2 plan that has visited all four positions
C1_Witness ==
  /\ LoopFinished
  /\ Len(az) = 2 /\ Len(fa) = 2
  /\ Len(Captures) = 4
  /\ pc = "write"

(***************************************************************************)
(* C2: at every visited position the azimuth axis is sent the plan azimuth *)
(* minus ref_az and the field axis the plan field angle minus ref_fa, and  *)
(* the record appended for the position holds the plan (source) angles,    *)
(* not the commanded ones.                                                 *)
(***************************************************************************)
C2_OffsetCommandsSourceRecords ==
  Started =>
    /\ \A j \in 1..Len(ProgrammedMoves) :
         LET k == (j + 1) \div 2
             m == ProgrammedMoves[j]
         IN IF j % 2 = 1
            THEN m.dev = az_zaber_device_idx /\ m.position = AzOf(k) - ref_az
            ELSE m.dev = fa_zaber_device_idx /\ m.position = FaOf(k) - ref_fa
    /\ \A k \in 1..Len(Captures) :
         /\ 2 * k <= Len(ProgrammedMoves)
         /\ Captures[k].source_azimuth_angle_deg = ProgrammedMoves[2 * k - 1].position + ref_az
         /\ Captures[k].source_field_angle_deg = ProgrammedMoves[2 * k].position + ref_fa
         /\ Captures[k].source_azimuth_angle_deg = AzOf(k)
         /\ Captures[k].source_field_angle_deg = FaOf(k)
         /\ ref_az # 0 =>
              Captures[k].source_azimuth_angle_deg # ProgrammedMoves[2 * k - 1].position
         /\ ref_fa # 0 =>
              Captures[k].source_field_angle_deg # ProgrammedMoves[2 * k].position

\* two records appended in a run whose two reference angles are not zero
C2_Witness ==
  /\ Started
  /\ ref_az # 0 /\ ref_fa # 0
  /\ Len(Captures) >= 2
  /\ Len(ProgrammedMoves) >= 4

(***************************************************************************)
(* C3: when output_dir does not exist the run makes no capture_image call, *)
(* still visits every position, still produces config.slconf with as many  *)
(* records as a run with captures enabled, and the missing directory is    *)
(* never fatal to the run.                                                 *)
(***************************************************************************)
C3_MissingDirStillWritesSidecar ==
  (CaptureRun /\ ~IsDir(output_dir) /\ Ended /\ ReachedWrite /\ NumPositions > 0) =>
    /\ SelectSeq(trace, IsCapture) = <<>>
    /\ Len(ProgrammedMoves) = 2 * NumPositions
    /\ Len(Captures) = NumPositions
    /\ capture_config_file # None
    /\ pc = "returned"

(***************************************************************************)
(* C4: at the end of a run over a non-empty plan, config.slconf parses     *)
(* back to the in-memory configuration: the same records in the same       *)
(* order with the same field values, and run_name, comment and version.    *)
(***************************************************************************)
\* what json.load gives for a configuration that was written in full
ParsedForm(cfg) ==
  PyDict(<<Item("captures",
                PyList([i \in 1..Len(cfg.captures) |->
                  PyDict(<<Item("image_paths", PyStr(cfg.captures[i].image_paths.v)),
                           Item("source_field_angle_deg",
                                PyInt(cfg.captures[i].source_field_angle_deg)),
                           Item("source_azimuth_angle_deg",
                                PyInt(cfg.captures[i].source_azimuth_angle_deg)),
                           Item("source_comment",
                                PyStr(cfg.captures[i].source_comment))>>)])),
           Item("run_name", PyStr(cfg.run_name)),
           Item("comment", PyStr(cfg.comment)),
           Item("version", PyInt(cfg.version))>>)

C4_SidecarRoundTrip ==
  (CaptureRun /\ IsDir(output_dir) /\ Ended /\ ReachedWrite /\ NumPositions > 0) =>
    /\ capture_config_file # None
    /\ LET r == json_load(capture_config_file.content)
       IN r.ok /\ r.val = ParsedForm(capture_config)

(***************************************************************************)
(* C5: in every run with a plan present that got through its device and    *)
(* capture calls (captures enabled or image capture disabled), after the   *)
(* move of the last planned position the azimuth axis is sent to ref_az    *)
(* and the field axis to ref_fa, and each of the two park moves blocks     *)
(* until its axis is idle.                                                 *)
(***************************************************************************)
C5_ParkAfterLastPosition ==
  /\ (Started /\ pc = "park_fa") => ~moving[axis_az]
  /\ ReachedWrite =>
       /\ ~moving[axis_az]
       /\ ~moving[axis_fa]
       /\ \E i, j \in 1..Len(trace) :
            /\ i < j
            /\ trace[i] = Move(az_zaber_device_idx, ref_az, TRUE)
            /\ trace[j] = Move(fa_zaber_device_idx, ref_fa, TRUE)
            /\ \A h \in 1..Len(trace) : IsProgrammedMove(trace[h]) => h < i

\* a run with image capture disabled that visited four positions and parked
C5_Witness ==
  /\ ReachedWrite
  /\ ~do_captures
  /\ Len(Captures) = 4
  /\ pc = "raised"

(***************************************************************************)
(* C6: the device connection is opened at most once per run and, once      *)
(* opened, it is closed whichever way the function ends: by returning or   *)
(* by an exception of detection, homing, axis selection, a move, a wait, a *)
(* capture or the sidecar write.                                           *)
(***************************************************************************)
C6_ConnectionReleased ==
  entry = "capture" =>
    /\ Len(SelectSeq(trace, IsOpen)) <= 1
    /\ Len(SelectSeq(trace, IsClose)) <= Len(SelectSeq(trace, IsOpen))
    /\ (connection = "unopened") <=> (SelectSeq(trace, IsOpen) = <<>>)
    /\ Ended =>
         /\ connection # "open"
         /\ SelectSeq(trace, IsOpen) # <<>> =>
              /\ connection = "closed"
              /\ trace[Len(trace)] = [op |-> "close"]

\* a run that ended by an exception of capture_image, its connection closed
C6_Witness ==
  /\ pc = "raised"
  /\ exc # None
  /\ exc.at = "capture"
  /\ connection = "closed"

(***************************************************************************)
(* C7: run_sl_analysis makes no call into the analysis library when one of *)
(* its two input files is missing, and returns 1; when both exist it makes *)
(* exactly three calls, in this order: one initialization, one             *)
(* stray_light_batch, one terminate_library, whatever the batch call did.  *)
(***************************************************************************)
LibraryOps == <<"ImatestLibrary", "stray_light_batch", "terminate_library">>

C7_LibraryBracket ==
  entry = "analysis" =>
    /\ Len(trace) <= 3
    /\ \A i \in 1..Len(trace) : trace[i].op = LibraryOps[i]
    /\ ~(config_is_file /\ ini_is_file) => trace = <<>>
    /\ pc = "sl_returned" =>
         IF config_is_file /\ ini_is_file
         THEN Len(trace) = 3
         ELSE exit_code = 1 /\ trace = <<>>

\* a call that returned after the batch call raised an unclassified exception
C7_Witness ==
  /\ entry = "analysis"
  /\ pc = "sl_returned"
  /\ Len(trace) = 3
  /\ trace[2].outcome.kind = "Exception"

SweepFieldAngles ==
  <<-45, -40, -35, -30, -25, -20, -15, -10, -5, 0, 5, 10, 15, 20, 25, 30, 35, 40, 45>>

SweepFileNames ==
  <<"cap00001.png", "cap00002.png", "cap00003.png", "cap00004.png", "cap00005.png",
    "cap00006.png", "cap00007.png", "cap00008.png", "cap00009.png", "cap00010.png",
    "cap00011.png", "cap00012.png", "cap00013.png", "cap00014.png", "cap00015.png",
    "cap00016.png", "cap00017.png", "cap00018.png", "cap00019.png">>

C9_BuilderPlansAndSweepRun ==
  /\ make_sample_mg_horizontal_sweep_capture_plan =
       [azimuthAngles |-> <<0>>, fieldAngles |-> SweepFieldAngles]
  /\ make_sample_mg_star_capture_plan =
       [azimuthAngles |-> <<0, 45, 90>>, fieldAngles |-> SweepFieldAngles]
  /\ (/\ LoopFinished
      /\ capture_plan = make_sample_mg_horizontal_sweep_capture_plan
      /\ ref_az = 0 /\ ref_fa = 0 /\ im_file_ext = "png") =>
       /\ Len(Captures) = 19
       /\ \A k \in 1..19 :
            /\ Captures[k].image_paths.v = output_dir \o "/" \o SweepFileNames[k]
            /\ Captures[k].source_field_angle_deg = SweepFieldAngles[k]
            /\ Captures[k].source_azimuth_angle_deg = 0

\* the sweep run of main(), all of its positions visited
C9_Witness ==
  /\ LoopFinished
  /\ capture_plan = make_sample_mg_horizontal_sweep_capture_plan
  /\ ref_az = 0 /\ ref_fa = 0 /\ im_file_ext = "png"
  /\ Len(Captures) = 19
  /\ pc = "write"

(***************************************************************************)
(* C10: with capture_plan None the function returns to its caller having   *)
(* done nothing: no connection opened, no home or move command, no         *)
(* capture_image call, no config.slconf created or written.                *)
(***************************************************************************)
C10_NoPlanNoEffect ==
  (entry = "capture" /\ capture_plan = None) =>
    /\ pc \in {"start", "returned"}
    /\ trace = <<>>
    /\ connection = "unopened"
    /\ capture_config_file = None
    /\ capture_config = None
    /\ exc = None
    /\ \A d \in DeviceIdx : ~moving[d]

\* the call without a plan has returned
C10_Witness ==
  /\ entry = "capture"
  /\ capture_plan = None
  /\ pc = "returned"

(***************************************************************************)
(* C11: at every position the azimuth move and the field move are both     *)
(* issued without waiting before either axis is waited on; the run then    *)
(* waits for both axes; only with both idle does it pause, then call       *)
(* capture_image (captures enabled), then append the record.               *)
(* capture_image is never called while an axis moves, and no move of the   *)
(* next position is issued before the record of this one is appended.      *)
(***************************************************************************)
IsWaitOn(e, dev) == e.op = "wait_until_idle" /\ e.dev = dev

C11_FireTwoThenBarrier ==
  Started =>
    /\ pc = "wait_fa" => ~moving[axis_az]
    /\ pc \in {"pause", "capture", "append"} => ~moving[axis_az] /\ ~moving[axis_fa]
    /\ pc = "move_az" => Len(ProgrammedMoves) = 2 * Len(Captures)
    /\ Len(ProgrammedMoves) <= 2 * (Len(Captures) + 1)
    /\ \A i \in 1..Len(trace) :
         /\ IsWaitOn(trace[i], az_zaber_device_idx) =>
              /\ i > 2
              /\ IsProgrammedMove(trace[i - 2]) /\ trace[i - 2].dev = az_zaber_device_idx
              /\ IsProgrammedMove(trace[i - 1]) /\ trace[i - 1].dev = fa_zaber_device_idx
         /\ IsWaitOn(trace[i], fa_zaber_device_idx) =>
              i > 1 /\ IsWaitOn(trace[i - 1], az_zaber_device_idx)
         /\ trace[i].op = "sleep" =>
              i > 1 /\ IsWaitOn(trace[i - 1], fa_zaber_device_idx)
         /\ IsCapture(trace[i]) => i > 1 /\ trace[i - 1].op = "sleep"
         /\ (IsProgrammedMove(trace[i]) /\ trace[i].dev = fa_zaber_device_idx) =>
              i > 1 /\ IsProgrammedMove(trace[i - 1])

\* the second position of a run with captures: capture_image has just returned
C11_Witness ==
  /\ Started
  /\ do_captures
  /\ pc = "append"
  /\ position_idx = 2
  /\ IsCapture(trace[Len(trace)])

(***************************************************************************)
(* C12: with do_home true every device detect_devices returned is homed,   *)
(* one device at a time and each home call blocking until the device is    *)
(* idle, before any move_absolute command goes to any axis; with do_home   *)
(* false no home command is issued in the run.                             *)
(***************************************************************************)
IsHome(e) == e.op = "home"
Homes == SelectSeq(trace, IsHome)

C12_HomeBeforeMoves ==
  Started =>
    /\ ~do_home => Homes = <<>>
    /\ do_home =>
         /\ Len(Homes) <= num_devices
         /\ \A k \in 1..Len(Homes) :
              Homes[k] = [op |-> "home", dev |-> k - 1, wait_until_idle |-> TRUE]
         /\ pc \in {"home", "select"} => \A d \in DeviceIdx : ~moving[d]
         /\ pc = "home_idle" => \A d \in DeviceIdx : moving[d] => d = home_i
         /\ \A j \in 1..Len(trace) :
              IsMove(trace[j]) =>
                /\ Len(Homes) = num_devices
                /\ \A i \in 1..Len(trace) : IsHome(trace[i]) => i < j

\* both devices of the gimbal homed and the first move of the plan issued
C12_Witness ==
  /\ Started
  /\ do_home
  /\ num_devices = 2
  /\ Len(Homes) = 2
  /\ pc = "move_fa"

(***************************************************************************)
(* C13: a move, a wait-until-idle or a capture_image call that fails at    *)
(* position k ends the run with the exception going to the caller: the     *)
(* failed call is not issued again, no later position is visited, the park *)
(* moves are not issued, config.slconf is not written, and nothing happens *)
(* after the exception has left the function.                              *)
(***************************************************************************)
LoopCallPcs == {"move_az", "move_fa", "wait_az", "wait_fa", "capture"}
FailedInLoop == Started /\ pc = "raised" /\ exc # None /\ exc.at \in LoopCallPcs
IsParkMove(e) == IsMove(e) /\ e.wait_until_idle
IsWait(e) == e.op = "wait_until_idle"
CaptureCalls == SelectSeq(trace, IsCapture)
Waits == SelectSeq(trace, IsWait)

C13_FailedAtPosition ==
  FailedInLoop =>
    LET k == position_idx IN
    /\ k >= 1 /\ k <= NumPositions
    /\ exc.type = ExcType(exc.at)
    \* the calls made are those of k - 1 whole positions and of the part of
    \* position k before the failed call: the failed call is not among them
    /\ Len(Captures) = k - 1
    /\ Len(ProgrammedMoves) = (CASE exc.at = "move_az" -> 2 * (k - 1)
                                 [] exc.at = "move_fa" -> 2 * k - 1
                                 [] OTHER -> 2 * k)
    /\ Len(Waits) = (CASE exc.at \in {"move_az", "move_fa", "wait_az"} -> 2 * (k - 1)
                       [] exc.at = "wait_fa" -> 2 * k - 1
                       [] OTHER -> 2 * k)
    /\ Len(CaptureCalls) = (IF do_captures THEN k - 1 ELSE 0)
    \* no park move, no sidecar, the connection closed as the last call
    /\ \A i \in 1..Len(trace) : ~IsParkMove(trace[i]) /\ trace[i].op # "open_file"
    /\ capture_config_file = None
    /\ IsClose(trace[Len(trace)])
    /\ connection = "closed"

C13_NothingAfterFailure ==
  FailedInLoop =>
    UNCHANGED <<pc, exc, trace, capture_config, capture_config_file, position_idx,
                connection, exit_code>>

C13_NoRetryNoSwallow == [](C13_FailedAtPosition) /\ [][C13_NothingAfterFailure]_vars

\* capture_image failed at the second position, after one whole position
C13_Witness ==
  /\ FailedInLoop
  /\ exc.at = "capture"
  /\ position_idx = 2
  /\ Len(Captures) = 1

(***************************************************************************)
(* C14: the capture configuration changes only by getting one record       *)
(* appended: at every point its captures list holds one record per         *)
(* position completed so far, in visit order, appended records and the     *)
(* fields run_name, comment and version never change, and the              *)
(* configuration is serialized to config.slconf at most once in a run,     *)
(* only after every position has been recorded, and exactly once in a run  *)
(* that returns.                                                           *)
(***************************************************************************)
\* inside position position_idx, its record not yet appended
InsidePosition ==
  \/ pc \in {"move_az", "move_fa", "wait_az", "wait_fa", "pause", "capture", "append"}
  \/ pc = "raised" /\ exc # None /\ exc.at \in LoopCallPcs
PositionsCompleted == IF InsidePosition THEN position_idx - 1 ELSE position_idx
FileOpens == SelectSeq(trace, LAMBDA e : e.op = "open_file")

C14_OneRecordPerPosition ==
  Started =>
    /\ capture_config.run_name = NewCaptureConfig.run_name
    /\ capture_config.comment = NewCaptureConfig.comment
    /\ capture_config.version = NewCaptureConfig.version
    /\ Len(Captures) = PositionsCompleted
    /\ \A k \in 1..Len(Captures) :
         /\ Captures[k].source_azimuth_angle_deg = AzOf(k)
         /\ Captures[k].source_field_angle_deg = FaOf(k)
    /\ Len(FileOpens) <= 1
    /\ (FileOpens # <<>> \/ capture_config_file # None) =>
         /\ ReachedWrite /\ pc # "write"
         /\ Len(Captures) = NumPositions
    /\ capture_config_file # None => Len(FileOpens) = 1
    /\ pc = "returned" =>
         /\ Len(FileOpens) = 1
         /\ capture_config_file = [path |-> ConfigFilePath,
                                   content |-> json_dump(capture_config).out]
         /\ json_dump(capture_config).ok

C14_OnlyAppended ==
  (Started /\ Started') =>
    /\ capture_config' # capture_config =>
         /\ pc = "append"
         /\ Len(Captures') = Len(Captures) + 1
         /\ SubSeq(Captures', 1, Len(Captures)) = Captures
         /\ capture_config' = [capture_config EXCEPT !.captures = Captures']
    /\ capture_config_file' # capture_config_file =>
         /\ pc = "write"
         /\ capture_config_file = None
         /\ capture_config' = capture_config

ParkMoveAz == Move(az_zaber_device_idx, ref_az, TRUE)
ParkMoveFa == Move(fa_zaber_device_idx, ref_fa, TRUE)

C15_ParkThenWriteSequential ==
  Started =>
    /\ pc \in ParkPcs => ~(moving[axis_az] /\ moving[axis_fa])
    /\ pc = "park_az_idle" => trace[Len(trace)] = ParkMoveAz /\ ~moving[axis_fa]
    /\ pc \in {"park_fa", "park_fa_idle"} => ~moving[axis_az]
    /\ pc = "write" => ~moving[axis_az] /\ ~moving[axis_fa]
    /\ \A i \in 1..Len(trace) :
         /\ (IsParkMove(trace[i]) /\ trace[i].dev = fa_zaber_device_idx) =>
              /\ trace[i] = ParkMoveFa
              /\ i > 1 /\ trace[i - 1] = ParkMoveAz
         /\ trace[i].op = "open_file" =>
              /\ i > 2
              /\ trace[i - 1] = ParkMoveFa
              /\ trace[i - 2] = ParkMoveAz

\* after two recorded positions both axes were parked in turn and the file opened
C15_Witness ==
  /\ Started
  /\ do_captures
  /\ Len(Captures) = 2
  /\ pc = "exit_with"
  /\ trace[Len(trace)].op = "open_file"

(***************************************************************************)
(* C16: a run whose plan is present but has an empty azimuth list or an    *)
(* empty field list, and whose device calls all succeed, visits no         *)
(* position, issues no planned move and makes no capture_image call, yet   *)
(* opens the connection, issues the two park moves to (ref_az, ref_fa),    *)
(* writes config.slconf with an empty captures list and releases the       *)
(* connection.                                                             *)
(***************************************************************************)
EmptyPlanRunEnded == CaptureRun /\ NumPositions = 0 /\ Ended /\ ReachedWrite

C16_EmptyPlanStillParksAndWrites ==
  EmptyPlanRunEnded =>
    /\ position_idx = 0
    /\ ProgrammedMoves = <<>>
    /\ CaptureCalls = <<>>
    /\ Len(SelectSeq(trace, IsOpen)) = 1
    /\ SelectSeq(trace, IsMove) = <<ParkMoveAz, ParkMoveFa>>
    /\ capture_config_file # None
    /\ LET r == json_load(capture_config_file.content)
       IN r.ok /\ r.val = ParsedForm(NewCaptureConfig)
    /\ connection = "closed"
    /\ IsClose(trace[Len(trace)])

(***************************************************************************)
(* C17: at every point of a run the i-th record of the captures list holds *)
(* the image path output_dir/cap{i:05d}.<ext>, the path capture_image was  *)
(* called with for that position when captures are enabled; the            *)
(* capture_image calls made so far are as many as the records, or one      *)
(* more between the call and the append, and none with captures disabled;  *)
(* no two records share an image path.                                     *)
(***************************************************************************)
ExpectedPath(i) ==
  [t |-> "Path", v |-> output_dir \o "/" \o ExpectedName(i, im_file_ext)]

C17_RecordMatchesCapturedFile ==
  Started =>
    /\ \A i \in 1..Len(Captures) : Captures[i].image_paths = ExpectedPath(i)
    /\ \A i \in 1..Len(CaptureCalls) : CaptureCalls[i].path = ExpectedPath(i)
    /\ IF do_captures
       THEN /\ Len(CaptureCalls) \in {Len(Captures), Len(Captures) + 1}
            /\ Len(CaptureCalls) = Len(Captures) + 1 <=> pc = "append"
            /\ \A i \in 1..Len(Captures) : CaptureCalls[i].path = Captures[i].image_paths
       ELSE CaptureCalls = <<>>
    /\ \A i \in 1..Len(Captures) : \A j \in (i + 1)..Len(Captures) :
         Captures[i].image_paths # Captures[j].image_paths

\* the second image captured, its record not yet appended
C17_Witness ==
  /\ Started
  /\ do_captures
  /\ pc = "append"
  /\ Len(Captures) = 1
  /\ Len(CaptureCalls) = 2

====
